---- MODULE Spec2Model ----
(***************************************************************************)
(* jsqlon: reconciliation of an SQLite database (the live store) with its  *)
(* JSON text backup, modelled from src/jsqlon/database.py.                 *)
(*                                                                         *)
(* Text is modelled as a sequence of lexemes.  A lexeme is a word or one   *)
(* punctuation mark (space, comma, parenthesis, semicolon, double quote).  *)
(* Every Python string of the program is cut the same way, so equality of  *)
(* strings is equality of lexeme sequences, and splitting, joining,        *)
(* quoting and substring search work on lexemes as they do on characters.  *)
(***************************************************************************)
EXTENDS Integers, Sequences, FiniteSets, TLC

(***************************************************************************)
(* Text helpers (Python str operations used by the program).               *)
(***************************************************************************)
SP == " "
COMMA == ","
LP == "("
RP == ")"
SEMI == ";"
DQ == "\""

RECURSIVE Concat(_)
\* ''.join(parts)
Concat(parts) ==
    IF parts = <<>> THEN <<>> ELSE Head(parts) \o Concat(Tail(parts))

RECURSIVE Join(_, _)
\* sep.join(parts)
Join(sep, parts) ==
    IF parts = <<>> THEN <<>>
    ELSE IF Len(parts) = 1 THEN parts[1]
    ELSE parts[1] \o sep \o Join(sep, Tail(parts))

RECURSIVE SplitOn(_, _)
\* s.split(d) for a one-lexeme delimiter d: always at least one part
SplitOn(s, d) ==
    IF \E i \in 1..Len(s) : s[i] = d
    THEN LET i == CHOOSE j \in 1..Len(s) :
                      s[j] = d /\ \A h \in 1..(j - 1) : s[h] # d
         IN  <<SubSeq(s, 1, i - 1)>> \o SplitOn(SubSeq(s, i + 1, Len(s)), d)
    ELSE <<s>>

RECURSIVE Strip(_)
\* s.strip()
Strip(s) ==
    IF s = <<>> THEN s
    ELSE IF Head(s) = SP THEN Strip(Tail(s))
    ELSE IF s[Len(s)] = SP THEN Strip(SubSeq(s, 1, Len(s) - 1))
    ELSE s

RECURSIVE NonEmpty(_)
NonEmpty(parts) ==
    IF parts = <<>> THEN <<>>
    ELSE IF Head(parts) = <<>> THEN NonEmpty(Tail(parts))
    ELSE <<Head(parts)>> \o NonEmpty(Tail(parts))

\* s.split(): the maximal runs without whitespace
SplitWS(s) == NonEmpty(SplitOn(s, SP))

\* sub in s
Contains(s, sub) ==
    \E i \in 1..(Len(s) - Len(sub) + 1) : SubSeq(s, i, i + Len(sub) - 1) = sub

RECURSIVE ReplaceLex(_, _, _)
\* s.replace(a, b) for a one-lexeme a and a text b
ReplaceLex(s, a, b) ==
    IF s = <<>> THEN <<>>
    ELSE (IF Head(s) = a THEN b ELSE <<Head(s)>>) \o ReplaceLex(Tail(s), a, b)

StartsWith(s, p) == Len(s) >= Len(p) /\ SubSeq(s, 1, Len(p)) = p
EndsWith(s, p) == Len(s) >= Len(p) /\ SubSeq(s, Len(s) - Len(p) + 1, Len(s)) = p

Punct == {SP, COMMA, LP, RP, SEMI, DQ}
\* one lexeme matching the regular expression \w+
IsWord(x) == x \notin Punct

(***************************************************************************)
(* Values of the backup document (what json.load produces) and of the      *)
(* store.  v is the text Python's str() gives for the value.               *)
(***************************************************************************)
VNull == [k |-> "null", v |-> <<"None">>]
VInt(x) == [k |-> "int", v |-> <<x>>]
VFloat(x) == [k |-> "float", v |-> <<x>>]
VText(s) == [k |-> "text", v |-> s]
VBool(b) == [k |-> "bool", v |-> IF b THEN <<"True">> ELSE <<"False">>]
VList == [k |-> "list", v |-> <<"[]">>]

\* str(value), as used by f-strings and str()
PyStr(val) == val.v

\* truth value of a Python object
Truthy(val) ==
    CASE val.k = "null" -> FALSE
      [] val.k = "bool" -> val.v = <<"True">>
      [] val.k = "int" -> val.v # <<"0">>
      [] val.k = "float" -> val.v # <<"0.0">>
      [] val.k = "text" -> val.v # <<>>
      [] OTHER -> FALSE

\* isinstance(val, (int, float)): bool is a subclass of int
IsIntOrFloat(val) == val.k \in {"int", "float", "bool"}

\* ordered mapping: a sequence of [key, val] records, keys distinct
HasKey(m, key) == \E i \in 1..Len(m) : m[i].key = key
Get(m, key) == m[CHOOSE i \in 1..Len(m) : m[i].key = key].val
GetOr(m, key, dflt) == IF HasKey(m, key) THEN Get(m, key) ELSE dflt
KV(key, val) == [key |-> key, val |-> val]

(***************************************************************************)
(* Statement builder.  A failed build (a Python exception) is the value    *)
(* Raise(kind).                                                            *)
(***************************************************************************)
Raise(kind) == <<"!raise", kind>>
IsRaise(x) == Len(x) = 2 /\ x[1] = "!raise"
AnyRaise(xs) == \E i \in 1..Len(xs) : IsRaise(xs[i])
FirstRaise(xs) == xs[CHOOSE i \in 1..Len(xs) : IsRaise(xs[i]) /\ \A j \in 1..(i - 1) : ~IsRaise(xs[j])]

SpecKeys == {"datatype", "default", "not_null", "unique", "primary_key", "autoincrement"}

\* Database.column_spec_from_data(name=n, **spec)
column_spec_from_data(name, spec) ==
    IF ~HasKey(spec, "datatype") \/ \E i \in 1..Len(spec) : spec[i].key \notin SpecKeys
    THEN Raise("TypeError")
    ELSE LET default == GetOr(spec, "default", VNull)
             not_null == GetOr(spec, "not_null", VBool(FALSE))
             unique == GetOr(spec, "unique", VBool(FALSE))
             primary_key == GetOr(spec, "primary_key", VBool(FALSE))
             autoincrement == GetOr(spec, "autoincrement", VBool(FALSE))
         IN  name \o <<SP>> \o PyStr(Get(spec, "datatype"))
             \o (IF default # VNull THEN <<SP, "DEFAULT", SP>> \o PyStr(default) ELSE <<>>)
             \o (IF Truthy(not_null) THEN <<SP, "NOT", SP, "NULL">> ELSE <<>>)
             \o (IF Truthy(unique) THEN <<SP, "UNIQUE">> ELSE <<>>)
             \o (IF Truthy(primary_key)
                 THEN <<SP, "PRIMARY", SP, "KEY">>
                      \o (IF Truthy(autoincrement) THEN <<SP, "AUTOINCREMENT">> ELSE <<>>)
                 ELSE <<>>)

\* head + ', '.join(parts) + tail, or the exception raised while making the parts
JoinOrRaise(head, parts, tail) ==
    IF AnyRaise(parts) THEN FirstRaise(parts)
    ELSE head \o Join(<<COMMA, SP>>, parts) \o tail

\* Database.create_statement_from_data(name=k, **v)
create_statement_from_data(table) ==
    JoinOrRaise(<<"CREATE", SP, "TABLE", SP, table.name, SP, LP>>,
                [i \in 1..Len(table.columns) |->
                    column_spec_from_data(table.columns[i].n, table.columns[i].spec)],
                <<RP, SEMI>>)

RECURSIVE DropNone_reversed(_)
\* the loop over the keys leaving the copy of the row in reverse order
DropNone_reversed(row) ==
    IF row = <<>> THEN <<>>
    ELSE DropNone_reversed(Tail(row)) \o (IF Head(row).val = VNull THEN <<>> ELSE <<Head(row)>>)

RECURSIVE DropNone(_)
\* the loop deleting the keys whose value is None from the copy of the row
DropNone(row) ==
    IF row = <<>> THEN <<>>
    ELSE (IF Head(row).val = VNull THEN <<>> ELSE <<Head(row)>>) \o DropNone(Tail(row))

\* the literal appended to vals for one value
RenderValue(val) ==
    IF IsIntOrFloat(val) THEN PyStr(val)
    ELSE IF val.k = "text" THEN <<DQ>> \o ReplaceLex(val.v, DQ, <<DQ, DQ>>) \o <<DQ>>
    ELSE Raise("ValueError")

\* the statement for the copy of the row without its None values
InsertText(name, data) ==
    JoinOrRaise(<<"INSERT", SP, "INTO", SP, name, SP, LP>>
                \o Join(<<COMMA>>, [i \in 1..Len(data) |-> data[i].key])
                \o <<RP, SP, "VALUES", SP, LP>>,
                [i \in 1..Len(data) |-> RenderValue(data[i].val)],
                <<RP, SEMI>>)

\* Database.insert_statement_from_data(name, data)
insert_statement_from_data(name, row) == InsertText(name, DropNone(row))

\* Database.populate_from_data(name=k, **v): the statements of one table
populate_from_data(table) ==
    [i \in 1..Len(table.rows) |-> insert_statement_from_data(table.name, table.rows[i])]

(***************************************************************************)
(* The store: SQLite as reached through sqlite3.connect(self.path).  A     *)
(* store file holds its tables in creation order; a table keeps the text   *)
(* of its CREATE statement (sqlite_master.sql) and its rows, each row a    *)
(* sequence of values in column order.                                     *)
(***************************************************************************)
IntLits == <<"0", "1", "2", "3", "4", "5">>
FloatLits == <<"0.0", "1.0", "2.0", "3.0", "4.0", "5.0", "0.5", "1.5">>
InSeq(x, xs) == \E i \in 1..Len(xs) : xs[i] = x
IndexOf(x, xs) == CHOOSE i \in 1..Len(xs) : xs[i] = x

ConstraintWords == {"DEFAULT", "NOT", "UNIQUE", "PRIMARY", "AUTOINCREMENT", "CHECK",
                    "REFERENCES", "CONSTRAINT", "COLLATE", "GENERATED", "AS"}
TableConstraintWords == {"FOREIGN", "PRIMARY", "UNIQUE", "CHECK", "CONSTRAINT"}

RECURSIVE SplitTop(_, _, _)
\* the parts of s between the commas that are outside every parenthesis
SplitTop(s, depth, acc) ==
    IF s = <<>> THEN <<acc>>
    ELSE LET c == Head(s)
         IN  IF c = COMMA /\ depth = 0 THEN <<acc>> \o SplitTop(Tail(s), 0, <<>>)
             ELSE SplitTop(Tail(s),
                           IF c = LP THEN depth + 1
                           ELSE IF c = RP /\ depth > 0 THEN depth - 1 ELSE depth,
                           Append(acc, c))

\* the value of a literal token of a statement; identifiers allowed as text
\* only where SQLite allows them (DEFAULT)
LiteralValue(tok, idIsText) ==
    IF Len(tok) >= 2 /\ tok[1] = DQ /\ tok[Len(tok)] = DQ
    THEN [ok |-> TRUE, val |-> VText(SubSeq(tok, 2, Len(tok) - 1))]
    ELSE IF Len(tok) = 1 /\ InSeq(tok[1], IntLits) THEN [ok |-> TRUE, val |-> VInt(tok[1])]
    ELSE IF Len(tok) = 1 /\ InSeq(tok[1], FloatLits) THEN [ok |-> TRUE, val |-> VFloat(tok[1])]
    ELSE IF tok = <<"True">> THEN [ok |-> TRUE, val |-> VInt("1")]
    ELSE IF tok = <<"False">> THEN [ok |-> TRUE, val |-> VInt("0")]
    ELSE IF idIsText /\ Len(tok) = 1 /\ IsWord(tok[1]) THEN [ok |-> TRUE, val |-> VText(tok)]
    ELSE [ok |-> FALSE, val |-> VNull]

NoColumn == [ok |-> FALSE, name |-> <<>>, type |-> <<>>, hasDefault |-> FALSE, default |-> VNull,
             notnull |-> FALSE, unique |-> FALSE, pk |-> FALSE, autoinc |-> FALSE]

RECURSIVE ParseConstraints(_, _)
\* DEFAULT followed by the literal lit
ParseDefault(toks, col, lit) ==
    IF lit.ok
    THEN ParseConstraints(SubSeq(toks, 3, Len(toks)),
                          [col EXCEPT !.hasDefault = TRUE, !.default = lit.val])
    ELSE NoColumn

\* the column constraints of one column definition, left to right
ParseConstraints(toks, col) ==
    IF toks = <<>> THEN col
    ELSE IF toks[1] = <<"NOT">> /\ Len(toks) >= 2 /\ toks[2] = <<"NULL">>
    THEN ParseConstraints(SubSeq(toks, 3, Len(toks)), [col EXCEPT !.notnull = TRUE])
    ELSE IF toks[1] = <<"UNIQUE">>
    THEN ParseConstraints(Tail(toks), [col EXCEPT !.unique = TRUE])
    ELSE IF toks[1] = <<"PRIMARY">> /\ Len(toks) >= 2 /\ toks[2] = <<"KEY">>
    THEN IF Len(toks) >= 3 /\ toks[3] = <<"AUTOINCREMENT">>
         THEN ParseConstraints(SubSeq(toks, 4, Len(toks)),
                               [col EXCEPT !.pk = TRUE, !.autoinc = TRUE])
         ELSE ParseConstraints(SubSeq(toks, 3, Len(toks)), [col EXCEPT !.pk = TRUE])
    ELSE IF toks[1] = <<"DEFAULT">> /\ Len(toks) >= 2
    THEN ParseDefault(toks, col, LiteralValue(toks[2], TRUE))
    ELSE NoColumn

RECURSIVE TypeLen(_)
\* how many leading tokens belong to the type name
TypeLen(toks) ==
    IF toks = <<>> \/ (Len(toks[1]) = 1 /\ toks[1][1] \in ConstraintWords) THEN 0
    ELSE 1 + TypeLen(Tail(toks))

\* a column named name whose definition continues with rest, the first tl
\* tokens of it being the type
ColumnOf(name, rest, tl) ==
    ParseConstraints(SubSeq(rest, tl + 1, Len(rest)),
                     [NoColumn EXCEPT !.ok = TRUE, !.name = name,
                                      !.type = Join(<<SP>>, SubSeq(rest, 1, tl))])

SqliteColumnToks(toks) ==
    IF toks = <<>> \/ Len(toks[1]) # 1 \/ ~IsWord(toks[1][1]) THEN NoColumn
    ELSE ColumnOf(toks[1], Tail(toks), TypeLen(Tail(toks)))

\* one column definition of a CREATE TABLE statement, as SQLite reads it
SqliteColumn(frag) == SqliteColumnToks(SplitWS(frag))

IsTableConstraintToks(toks) ==
    toks # <<>> /\ Len(toks[1]) = 1 /\ toks[1][1] \in TableConstraintWords

IsTableConstraint(frag) == IsTableConstraintToks(SplitWS(frag))

RECURSIVE SelectColumns(_)
SelectColumns(frags) ==
    IF frags = <<>> THEN <<>>
    ELSE (IF IsTableConstraint(Head(frags)) THEN <<>> ELSE <<SqliteColumn(Head(frags))>>)
         \o SelectColumns(Tail(frags))

CreatePrefix(name) == <<"CREATE", SP, "TABLE", SP, name, SP, LP>>

\* the text of a statement without its final semicolon (as sqlite_master keeps it)
StoredSql(stmt) == IF EndsWith(stmt, <<SEMI>>) THEN SubSeq(stmt, 1, Len(stmt) - 1) ELSE stmt

\* the table SQLite makes of the name and the column definitions
SqliteTableOf(name, cols) ==
    [ok |-> /\ cols # <<>>
            /\ \A i \in 1..Len(cols) : cols[i].ok
            /\ \A i, j \in 1..Len(cols) : cols[i].name = cols[j].name => i = j
            /\ Cardinality({i \in 1..Len(cols) : cols[i].pk}) <= 1
            /\ \A i \in 1..Len(cols) : cols[i].autoinc => cols[i].type = <<"INTEGER">>,
     name |-> name, cols |-> cols]

SqliteTableSql(sql) ==
    IF Len(sql) < 8 \/ ~IsWord(sql[5]) \/ ~StartsWith(sql, CreatePrefix(sql[5]))
       \/ sql[Len(sql)] # RP
    THEN [ok |-> FALSE, name |-> "", cols |-> <<>>]
    ELSE SqliteTableOf(sql[5], SelectColumns(SplitTop(SubSeq(sql, 8, Len(sql) - 1), 0, <<>>)))

\* the columns SQLite derives from the text of a CREATE TABLE statement
SqliteTable(stmt) == SqliteTableSql(StoredSql(stmt))

RECURSIVE ScanValues(_, _, _, _)
\* the literals of a VALUES list: cur is the literal being read (quoted
\* when inq), acc the literals read so far.  Inside quotes a doubled quote
\* is one quote character.
ScanValues(s, inq, cur, acc) ==
    IF s = <<>>
    THEN [ok |-> ~inq /\ cur # <<>>, toks |-> Append(acc, cur)]
    ELSE IF inq
    THEN IF Head(s) = DQ
         THEN IF Len(s) >= 2 /\ s[2] = DQ
              THEN ScanValues(SubSeq(s, 3, Len(s)), TRUE, Append(cur, DQ), acc)
              ELSE ScanValues(Tail(s), FALSE, Append(cur, DQ), acc)
         ELSE ScanValues(Tail(s), TRUE, Append(cur, Head(s)), acc)
    ELSE IF Head(s) = DQ
    THEN IF cur = <<>> THEN ScanValues(Tail(s), TRUE, <<DQ>>, acc)
         ELSE [ok |-> FALSE, toks |-> acc]
    ELSE IF Head(s) = COMMA
    THEN IF cur = <<>> THEN [ok |-> FALSE, toks |-> acc]
         ELSE ScanValues(Tail(s), FALSE, <<>>, Append(acc, cur))
    ELSE IF Head(s) = SP THEN ScanValues(Tail(s), FALSE, cur, acc)
    ELSE IF Head(s) \in {LP, RP, SEMI} THEN [ok |-> FALSE, toks |-> acc]
    ELSE ScanValues(Tail(s), FALSE, Append(cur, Head(s)), acc)

IsIdent(tok) == tok # <<>> /\ \A i \in 1..Len(tok) : IsWord(tok[i])

BadInsert == [ok |-> FALSE, name |-> "", cols |-> <<>>, vals |-> <<>>]

InsertVals(name, names, lits) ==
    IF \E h \in 1..Len(lits) : ~lits[h].ok THEN BadInsert
    ELSE [ok |-> TRUE, name |-> name, cols |-> names,
          vals |-> [h \in 1..Len(names) |-> lits[h].val]]

InsertOf(name, names, scan) ==
    IF \/ \E h \in 1..Len(names) : ~IsIdent(names[h])
       \/ ~scan.ok
       \/ Len(scan.toks) # Len(names)
    THEN BadInsert
    ELSE InsertVals(name, names,
                    [h \in 1..Len(names) |-> LiteralValue(scan.toks[h], FALSE)])

StripAll(parts) == [h \in 1..Len(parts) |-> Strip(parts[h])]

\* the statement whose column list ends at position i
InsertAt(stmt, i) ==
    IF i + 4 > Len(stmt) - 2 \/ SubSeq(stmt, i, i + 4) # <<RP, SP, "VALUES", SP, LP>>
    THEN BadInsert
    ELSE InsertOf(stmt[5], StripAll(SplitOn(SubSeq(stmt, 8, i - 1), COMMA)),
                  ScanValues(SubSeq(stmt, i + 5, Len(stmt) - 2), FALSE, <<>>, <<>>))

\* an INSERT INTO name (cols) VALUES (vals); statement, as SQLite reads it
SqliteInsert(stmt) ==
    IF Len(stmt) < 8 \/ ~IsWord(stmt[5])
       \/ ~StartsWith(stmt, <<"INSERT", SP, "INTO", SP, stmt[5], SP, LP>>)
       \/ ~EndsWith(stmt, <<RP, SEMI>>)
       \/ ~\E i \in 8..Len(stmt) : stmt[i] = RP
    THEN BadInsert
    ELSE InsertAt(stmt, CHOOSE j \in 8..Len(stmt) :
                            stmt[j] = RP /\ \A h \in 8..(j - 1) : stmt[h] # RP)

\* column affinity of a declared type
Affinity(type) ==
    IF type \in {<<"INTEGER">>, <<"INT">>} THEN "INTEGER"
    ELSE IF type \in {<<"TEXT">>, <<"VARCHAR">>} THEN "TEXT"
    ELSE IF type \in {<<"REAL">>, <<"FLOAT">>} THEN "REAL"
    ELSE IF type \in {<<"BLOB">>, <<>>} THEN "BLOB"
    ELSE "NUMERIC"

IsIntegral(f) == InSeq(f, FloatLits) /\ IndexOf(f, FloatLits) <= Len(IntLits)
IntOfFloat(f) == IntLits[IndexOf(f, FloatLits)]
FloatOfInt(x) == FloatLits[IndexOf(x, IntLits)]

\* a text that looks like a number, as the number
Numeric(val) ==
    IF val.k = "text" /\ Len(val.v) = 1 /\ InSeq(val.v[1], IntLits) THEN VInt(val.v[1])
    ELSE IF val.k = "text" /\ Len(val.v) = 1 /\ InSeq(val.v[1], FloatLits)
    THEN VFloat(val.v[1])
    ELSE val

AffinityOf(aff, val, num) ==
    CASE aff = "TEXT" -> IF val.k \in {"int", "float"} THEN VText(val.v) ELSE val
      [] aff \in {"INTEGER", "NUMERIC"} ->
            IF num.k = "float" /\ IsIntegral(num.v[1]) THEN VInt(IntOfFloat(num.v[1]))
            ELSE num
      [] aff = "REAL" -> IF num.k = "int" THEN VFloat(FloatOfInt(num.v[1])) ELSE num
      [] OTHER -> val

\* the value a column of the given affinity stores for val
ApplyAffinity(aff, val) == AffinityOf(aff, val, Numeric(val))

IsRowid(col) == col.pk /\ col.type = <<"INTEGER">>

Largest(used) == IF used = {} THEN 1 ELSE CHOOSE m \in used : \A u \in used : u <= m

\* the next rowid of a table: one more than the largest in use
NextRowid(rows, c) ==
    VInt(IntLits[Largest({IndexOf(rows[r][c].v[1], IntLits) : r \in 1..Len(rows)}) + 1])

ExecFail(tables, kind) == [ok |-> FALSE, tables |-> tables, err |-> kind]

\* the value the statement gives a column: the listed value, else the
\* column's default, else NULL
RawValue(col, ins) ==
    IF \E h \in 1..Len(ins.cols) : ins.cols[h] = col.name
    THEN ins.vals[CHOOSE h \in 1..Len(ins.cols) : ins.cols[h] = col.name]
    ELSE IF col.hasDefault THEN col.default ELSE VNull

RowidOr(col, rows, c, val) ==
    IF IsRowid(col) /\ val = VNull THEN NextRowid(rows, c) ELSE val

NewValue(col, ins, rows, c) ==
    RowidOr(col, rows, c, ApplyAffinity(Affinity(col.type), RawValue(col, ins)))

\* the constraints of the table on the new row
StoreRow(tables, ti, cols, row) ==
    IF \/ \E c \in 1..Len(cols) : IsRowid(cols[c]) /\ row[c].k # "int"
       \/ \E c \in 1..Len(cols) : cols[c].notnull /\ row[c] = VNull
       \/ \E c \in 1..Len(cols) :
             /\ cols[c].unique \/ cols[c].pk
             /\ row[c] # VNull
             /\ \E r \in 1..Len(tables[ti].rows) : tables[ti].rows[r][c] = row[c]
    THEN ExecFail(tables, "IntegrityError")
    ELSE [ok |-> TRUE, err |-> "",
          tables |-> [tables EXCEPT ![ti].rows = Append(@, row)]]

InsertRow(tables, ins, ti, cols) ==
    IF \/ \E h \in 1..Len(ins.cols) : ~\E c \in 1..Len(cols) : cols[c].name = ins.cols[h]
       \/ \E h, g \in 1..Len(ins.cols) : h # g /\ ins.cols[h] = ins.cols[g]
    THEN ExecFail(tables, "OperationalError")
    ELSE StoreRow(tables, ti, cols,
                  [c \in 1..Len(cols) |-> NewValue(cols[c], ins, tables[ti].rows, c)])

InsertInto(tables, ins, ti) == InsertRow(tables, ins, ti, SqliteTable(tables[ti].sql).cols)

ExecInsert(tables, ins) ==
    IF ~ins.ok \/ ~\E i \in 1..Len(tables) : tables[i].name = ins.name
    THEN ExecFail(tables, "OperationalError")
    ELSE InsertInto(tables, ins, CHOOSE i \in 1..Len(tables) : tables[i].name = ins.name)

ExecCreate(tables, stmt, t) ==
    IF ~t.ok \/ \E i \in 1..Len(tables) : tables[i].name = t.name
    THEN ExecFail(tables, "OperationalError")
    ELSE [ok |-> TRUE, err |-> "",
          tables |-> Append(tables, [name |-> t.name, sql |-> StoredSql(stmt), rows |-> <<>>])]

\* the result of one statement on the tables of the store
SqliteExec(tables, stmt) ==
    IF StartsWith(stmt, <<"CREATE">>) THEN ExecCreate(tables, stmt, SqliteTable(stmt))
    ELSE ExecInsert(tables, SqliteInsert(stmt))

RECURSIVE SqliteBatch(_, _)
BatchStep(r, rest) == IF r.ok THEN SqliteBatch(r.tables, rest) ELSE r

\* the statements of one transaction, in order, up to the first failure
SqliteBatch(tables, stmts) ==
    IF stmts = <<>> THEN [ok |-> TRUE, tables |-> tables, err |-> ""]
    ELSE BatchStep(SqliteExec(tables, Head(stmts)), Tail(stmts))

(***************************************************************************)
(* Introspection of the live store.                                        *)
(***************************************************************************)
NL == "\n"

\* columns[n] = c on an insertion-ordered dict
Put(m, key, val) ==
    IF HasKey(m, key)
    THEN [i \in 1..Len(m) |-> IF m[i].key = key THEN KV(key, val) ELSE m[i]]
    ELSE Append(m, KV(key, val))

\* the dict c of one column: t is the second token of cdata
ColumnDictOf(cdata, t) ==
    <<KV("datatype", VText(t))>>
    \o (IF Contains(cdata, <<"NOT", SP, "NULL">>) THEN <<KV("not_null", VBool(TRUE))>> ELSE <<>>)
    \o (IF Contains(cdata, <<"UNIQUE">>) THEN <<KV("unique", VBool(TRUE))>> ELSE <<>>)
    \o (IF Contains(cdata, <<"AUTOINCREMENT">>)
        THEN <<KV("autoincrement", VBool(TRUE))>> ELSE <<>>)
    \o (IF Contains(cdata, <<"PRIMARY", SP, "KEY">>)
        THEN <<KV("primary_key", VBool(TRUE))>> ELSE <<>>)

\* the body of the loop over column_data: n, t = cdata.split()[:2]
PutColumn(columns, cdata, toks) == Put(columns, toks[1], ColumnDictOf(cdata, toks[2]))

RECURSIVE ColumnsDict(_, _)
ColumnsDict(column_data, columns) ==
    IF column_data = <<>> THEN columns
    ELSE ColumnsDict(Tail(column_data),
                     PutColumn(columns, Head(column_data), SplitWS(Head(column_data))))

ParseColumns(name, column_data) ==
    IF \E i \in 1..Len(column_data) : Len(SplitWS(column_data[i])) < 2
    THEN [err |-> "ValueError", name |-> name, columns |-> <<>>]
    ELSE [err |-> "", name |-> name, columns |-> ColumnsDict(column_data, <<>>)]

\* where the group (.*) of create_re ends, 0 when the text does not end in ) or );
SqlEnd(sql) ==
    IF EndsWith(sql, <<RP, SEMI>>) THEN Len(sql) - 2
    ELSE IF EndsWith(sql, <<RP>>) THEN Len(sql) - 1 ELSE 0

ParseSql(sql, end) ==
    IF Len(sql) < 8 \/ ~IsWord(sql[5]) \/ ~StartsWith(sql, CreatePrefix(sql[5])) \/ end < 7
    THEN [err |-> "Exception", name |-> "", columns |-> <<>>]
    ELSE ParseColumns(sql[5], StripAll(SplitOn(SubSeq(sql, 8, end), COMMA)))

OneLine(source) == ReplaceLex(source, NL, <<SP>>)

\* the body of the loop over sources: the match of create_re and the
\* columns of one table
ParseSource(source) == ParseSql(OneLine(source), SqlEnd(OneLine(source)))

SelectRows(rows, cols) ==
    [r \in 1..Len(rows) |-> [c \in 1..Len(cols) |-> KV(cols[c].name, rows[r][c])]]

\* dict(row) for the rows of SELECT * FROM table
SelectAll(table) == SelectRows(table.rows, SqliteTable(table.sql).cols)

\* table names matching LIKE "sqlite_%"
SqliteLike == {"sqlite_sequence", "sqlite_stat1"}

RECURSIVE UserTables(_)
\* the rows of sqlite_master the query of as_storable_dict selects
UserTables(tables) ==
    IF tables = <<>> THEN <<>>
    ELSE (IF tables[1].name \in SqliteLike THEN <<>> ELSE <<Head(tables)>>)
         \o UserTables(Tail(tables))

\* the two loops of as_storable_dict with a query that returns an empty
\* list of rows instead of raising
Introspect_empty_is_valid(user, parsed) ==
    IF \E i \in 1..Len(user) : parsed[i].err # ""
    THEN [err |-> parsed[CHOOSE i \in 1..Len(user) :
                             parsed[i].err # "" /\ \A j \in 1..(i - 1) : parsed[j].err = ""].err,
          doc |-> <<>>]
    ELSE [err |-> "",
          doc |-> [i \in 1..Len(user) |->
                      [name |-> parsed[i].name, first |-> "rows",
                       columns |-> [c \in 1..Len(parsed[i].columns) |->
                                       [n |-> parsed[i].columns[c].key,
                                        spec |-> parsed[i].columns[c].val]],
                       rows |-> SelectAll(user[i])]]]

\* the two loops of as_storable_dict over the tables user, parsed[i] being
\* what the first loop makes of user[i].sql
Introspect(user, parsed) ==
    IF \E i \in 1..Len(user) : parsed[i].err # ""
    THEN [err |-> parsed[CHOOSE i \in 1..Len(user) :
                             parsed[i].err # "" /\ \A j \in 1..(i - 1) : parsed[j].err = ""].err,
          doc |-> <<>>]
    ELSE IF \E i \in 1..Len(user) : user[i].rows = <<>>
    THEN [err |-> "NoResults", doc |-> <<>>]
    ELSE [err |-> "",
          doc |-> [i \in 1..Len(user) |->
                      [name |-> parsed[i].name, first |-> "rows",
                       columns |-> [c \in 1..Len(parsed[i].columns) |->
                                       [n |-> parsed[i].columns[c].key,
                                        spec |-> parsed[i].columns[c].val]],
                       rows |-> SelectAll(user[i])]]]

IntrospectTables(user) ==
    IF user = <<>> THEN [err |-> "NoResults", doc |-> <<>>]
    ELSE Introspect(user, [i \in 1..Len(user) |-> ParseSource(user[i].sql)])

\* Database.as_storable_dict on the tables of the store: the document, or
\* the exception raised.  Database.query raises NoResults on an empty result.
as_storable_dict(tables) == IntrospectTables(UserTables(tables))

(***************************************************************************)
(* Fingerprint: hash(str(data)).  str(data) is the text Python prints for  *)
(* the nested dicts; hash() of a str is keyed by the seed of the process.  *)
(***************************************************************************)
SQ == "'"

ReprValue(val) == IF val.k = "text" THEN <<SQ>> \o val.v \o <<SQ>> ELSE val.v

\* str() of a dict whose keys are the texts ks[i] and whose values print as vs[i]
ReprDict(ks, vs) ==
    <<"{">> \o Join(<<COMMA, SP>>, [i \in 1..Len(ks) |-> <<SQ>> \o ks[i] \o <<SQ, ":", SP>> \o vs[i]])
    \o <<"}">>

ReprList(vs) == <<"[">> \o Join(<<COMMA, SP>>, vs) \o <<"]">>

ReprSpec(spec) ==
    ReprDict([i \in 1..Len(spec) |-> <<spec[i].key>>], [i \in 1..Len(spec) |-> ReprValue(spec[i].val)])

ReprRow(row) ==
    ReprDict([i \in 1..Len(row) |-> row[i].key], [i \in 1..Len(row) |-> ReprValue(row[i].val)])

ReprTable(t) ==
    LET columns == ReprDict([c \in 1..Len(t.columns) |-> t.columns[c].n],
                            [c \in 1..Len(t.columns) |-> ReprSpec(t.columns[c].spec)])
        rows == ReprList([r \in 1..Len(t.rows) |-> ReprRow(t.rows[r])])
    IN  IF t.first = "rows"
        THEN ReprDict(<< <<"rows">>, <<"columns">> >>, <<rows, columns>>)
        ELSE ReprDict(<< <<"columns">>, <<"rows">> >>, <<columns, rows>>)

\* str(data)
ReprDoc(data) ==
    ReprDict([i \in 1..Len(data) |-> <<data[i].name>>], [i \in 1..Len(data) |-> ReprTable(data[i])])

\* Database.hash_of_storable in a process whose hash seed is seed
hash_of_storable(data, seed) == [seed |-> seed, of |-> ReprDoc(data)]

(***************************************************************************)
(* Backup codec: json.dump / json.load.  The file keeps the nesting and    *)
(* the order of the document; every leaf is a JSON token.                  *)
(***************************************************************************)
\* json.dump writing the booleans as the numbers 1 and 0
JsonToken_bools_as_numbers(val) ==
    CASE val.k \in {"int", "float"} -> [j |-> "number", s |-> val.v]
      [] val.k = "text" -> [j |-> "string", s |-> val.v]
      [] val.k = "bool" -> [j |-> "number", s |-> IF val.v = <<"True">> THEN <<"1">> ELSE <<"0">>]
      [] val.k = "null" -> [j |-> "literal", s |-> <<"null">>]
      [] OTHER -> [j |-> "array", s |-> val.v]

JsonToken(val) ==
    CASE val.k \in {"int", "float"} -> [j |-> "number", s |-> val.v]
      [] val.k = "text" -> [j |-> "string", s |-> val.v]
      [] val.k = "bool" -> [j |-> "literal", s |-> IF val.v = <<"True">> THEN <<"true">> ELSE <<"false">>]
      [] val.k = "null" -> [j |-> "literal", s |-> <<"null">>]
      [] OTHER -> [j |-> "array", s |-> val.v]

JsonValue(tok) ==
    CASE tok.j = "number" -> IF InSeq(tok.s[1], IntLits) THEN VInt(tok.s[1]) ELSE VFloat(tok.s[1])
      [] tok.j = "string" -> VText(tok.s)
      [] tok.j = "literal" -> IF tok.s = <<"null">> THEN VNull ELSE VBool(tok.s = <<"true">>)
      [] OTHER -> VList

\* the walk over tables, columns and rows that both directions share
MapLeaf(val, dump) == IF dump THEN JsonToken(val) ELSE JsonValue(val)
MapVals(m, dump) == [i \in 1..Len(m) |-> KV(m[i].key, MapLeaf(m[i].val, dump))]
MapDoc(data, dump) ==
    [i \in 1..Len(data) |->
        [name |-> data[i].name, first |-> data[i].first,
         columns |-> [c \in 1..Len(data[i].columns) |->
                         [n |-> data[i].columns[c].n,
                          spec |-> MapVals(data[i].columns[c].spec, dump)]],
         rows |-> [r \in 1..Len(data[i].rows) |-> MapVals(data[i].rows[r], dump)]]]

\* json.dump(data, f, indent=2)
json_dump(data) == MapDoc(data, TRUE)
\* json.load(f)
json_load(content) == MapDoc(content, FALSE)

(***************************************************************************)
(* Documents and stores the passes start from.                             *)
(***************************************************************************)
T == VBool(TRUE)
TYPE(t) == KV("datatype", VText(<<t>>))
Col(n, spec) == [n |-> n, spec |-> spec]
Table(name, first, columns, rows) ==
    [name |-> name, first |-> first, columns |-> columns, rows |-> rows]

\* id INTEGER PRIMARY KEY AUTOINCREMENT, name TEXT NOT NULL UNIQUE; the keys
\* in the order as_storable_dict writes them
UsersColumns ==
    << Col(<<"id">>, <<TYPE("INTEGER"), KV("autoincrement", T), KV("primary_key", T)>>),
       Col(<<"name">>, <<TYPE("TEXT"), KV("not_null", T), KV("unique", T)>>) >>
UserRow(id, name) == <<KV(<<"id">>, id), KV(<<"name">>, name)>>
Alice == VText(<<"Alice">>)
OBrien == VText(<<"O", DQ, "Brien">>)

\* one table, as a refresh writes it
DocUsers == << Table("users", "rows", UsersColumns, <<UserRow(VInt("1"), Alice)>>) >>
\* the same table with one more row
DocUsers2 ==
    << Table("users", "rows", UsersColumns,
             <<UserRow(VInt("1"), Alice), UserRow(VInt("2"), OBrien)>>) >>
\* written by hand: columns before rows, keys in the order of the documented
\* file structure, a default, a null value and a second table
DocHand ==
    << Table("users", "columns",
             << Col(<<"id">>, <<TYPE("INTEGER"), KV("primary_key", T), KV("autoincrement", T)>>),
                Col(<<"name">>, <<TYPE("TEXT"), KV("not_null", T), KV("unique", T)>>),
                Col(<<"age">>, <<TYPE("INTEGER"), KV("default", VInt("0"))>>) >>,
             << <<KV(<<"id">>, VInt("1")), KV(<<"name">>, Alice), KV(<<"age">>, VNull)>>,
                <<KV(<<"name">>, OBrien), KV(<<"age">>, VInt("3"))>> >>),
       Table("tags", "columns",
             << Col(<<"tag">>, <<TYPE("TEXT")>>), Col(<<"w">>, <<TYPE("REAL")>>) >>,
             << <<KV(<<"tag">>, VText(<<"a">>)), KV(<<"w">>, VFloat("1.5"))>> >>) >>
\* the second table's second row breaks its UNIQUE constraint
DocDup ==
    << Table("users", "rows", UsersColumns, <<UserRow(VInt("1"), Alice)>>),
       Table("tags", "rows", << Col(<<"tag">>, <<TYPE("TEXT"), KV("unique", T)>>) >>,
             << <<KV(<<"tag">>, VText(<<"a">>))>>, <<KV(<<"tag">>, VText(<<"a">>))>> >>) >>
\* a value that is neither number nor text
DocList ==
    << Table("users", "rows", UsersColumns, <<UserRow(VInt("1"), Alice)>>),
       Table("tags", "rows", << Col(<<"tag">>, <<TYPE("TEXT")>>) >>,
             << <<KV(<<"tag">>, VList)>> >>) >>
\* a column without a datatype
DocNoType ==
    << Table("users", "rows", << Col(<<"id">>, <<KV("primary_key", T)>>) >>,
             << <<KV(<<"id">>, VInt("1"))>> >>) >>
\* a table without rows
DocNoRows == << Table("users", "rows", UsersColumns, <<>>) >>
\* two primary keys: SQLite rejects the CREATE statement
DocTwoKeys ==
    << Table("users", "rows", UsersColumns, <<UserRow(VInt("1"), Alice)>>),
       Table("tags", "rows",
             << Col(<<"a">>, <<TYPE("INTEGER"), KV("primary_key", T)>>),
                Col(<<"b">>, <<TYPE("INTEGER"), KV("primary_key", T)>>) >>,
             << <<KV(<<"a">>, VInt("1")), KV(<<"b">>, VInt("2"))>> >>) >>

\* a boolean among the values of a row
DocBool ==
    << Table("tags", "rows",
             << Col(<<"tag">>, <<TYPE("TEXT")>>), Col(<<"f">>, <<TYPE("INTEGER")>>) >>,
             << <<KV(<<"tag">>, VText(<<"a">>)), KV(<<"f">>, T)>> >>) >>

SampleDocs ==
    {DocUsers, DocUsers2, DocHand, DocDup, DocList, DocNoType, DocNoRows, DocTwoKeys, DocBool}

\* a column of a parameterised type: price DECIMAL(10,2)
DECIMAL == VText(<<"DECIMAL", LP, "10", COMMA, "2", RP>>)
DocItems ==
    << Table("items", "rows",
             << Col(<<"name">>, <<TYPE("TEXT")>>), Col(<<"price">>, <<KV("datatype", DECIMAL)>>) >>,
             << <<KV(<<"name">>, VText(<<"a">>)), KV(<<"price">>, VFloat("1.5"))>> >>) >>
DocItemsNoRows == << [DocItems[1] EXCEPT !.rows = <<>>] >>

\* the statements a user ran to make a store
ScriptOf(data) ==
    [i \in 1..Len(data) |-> create_statement_from_data(data[i])]
    \o Concat([i \in 1..Len(data) |-> populate_from_data(data[i])])

\* a table with a table constraint:
\* CREATE TABLE tags (tag TEXT, uid INTEGER, FOREIGN KEY (uid) REFERENCES users(id));
ScriptForeign ==
    << <<"CREATE", SP, "TABLE", SP, "tags", SP, LP, "tag", SP, "TEXT", COMMA, SP,
         "uid", SP, "INTEGER", COMMA, SP, "FOREIGN", SP, "KEY", SP, LP, "uid", RP, SP,
         "REFERENCES", SP, "users", LP, "id", RP, RP, SEMI>>,
       <<"INSERT", SP, "INTO", SP, "tags", SP, LP, "tag", COMMA, "uid", RP, SP,
         "VALUES", SP, LP, DQ, "a", DQ, COMMA, SP, "1", RP, SEMI>> >>

SampleScripts ==
    { <<>>, ScriptOf(DocUsers), ScriptOf(DocUsers2), ScriptOf(DocHand), ScriptOf(DocNoRows),
      ScriptForeign, ScriptOf(DocItems), ScriptOf(DocItemsNoRows) }

(***************************************************************************)
(* Bounds.                                                                 *)
(***************************************************************************)
\* modification times the two files may start with
MaxTime0 == 2
\* passes (Database objects used as context managers) on the same path
MaxPasses == 3
\* hash seeds a process may start with
NSeeds == 2

(***************************************************************************)
(* State.                                                                  *)
(***************************************************************************)
VARIABLES
    db,         \* the file self.path: exists, tables, mtime
    backup,     \* the file self.backup_path: exists, content, mtime
    bak,        \* the file self.path.<today>.bak: exists, tables
    clock,      \* the time of the latest write to a file
    dummy,      \* self.dummy
    recovered,  \* self.recovered
    seed,       \* the hash seed of the running process
    pc,         \* where the pass is
    local,      \* the local variables of load_backup
    err,        \* the exception that ended the pass, "" when none
    printed,    \* what execute_sql printed in dummy mode
    pass,       \* number of the current pass
    pre,        \* the two files as they were when __enter__ began
    calls,      \* this pass: calls of load_backup and save_backup, and
                \* whether the enter step consulted fingerprint or mtime
    past        \* the two files as the first pass found them, and the calls
                \* of load_backup and save_backup of the passes before this one

vars == <<db, backup, bak, clock, dummy, recovered, seed, pc, local, err, printed, pass, pre, calls, past>>

Absent == [exists |-> FALSE, tables |-> <<>>, mtime |-> 0]
NoBackup == [exists |-> FALSE, content |-> <<>>, mtime |-> 0]
NoLocal == [backup_data |-> <<>>, create_statements |-> <<>>, populate_statements |-> <<>>, i |-> 0]
NoCalls == [load |-> 0, save |-> 0, consulted |-> FALSE]

\* the store files and the backup files a run may find on the path
Stores ==
    {Absent} \cup
    {[exists |-> TRUE, tables |-> SqliteBatch(<<>>, script).tables, mtime |-> t] :
        script \in SampleScripts, t \in 1..MaxTime0}
Backups ==
    {NoBackup} \cup
    {[exists |-> TRUE, content |-> json_dump(data), mtime |-> t] :
        data \in SampleDocs, t \in 1..MaxTime0}

Init ==
    /\ db \in Stores
    /\ backup \in Backups
    /\ bak = [exists |-> FALSE, tables |-> <<>>]
    /\ clock = MaxTime0
    /\ dummy \in BOOLEAN
    /\ recovered = FALSE
    /\ seed \in 1..NSeeds
    /\ pc = "enter"
    /\ local = NoLocal
    /\ err = ""
    /\ printed = <<>>
    /\ pass = 1
    /\ pre = [db |-> db, backup |-> backup]
    /\ calls = NoCalls
    /\ past = [start |-> [db |-> db, backup |-> backup], passes |-> <<>>]

(***************************************************************************)
(* Database methods that read the two files.                               *)
(***************************************************************************)
HashOf(r, sd) == [err |-> r.err, val |-> hash_of_storable(r.doc, sd)]

\* Database.hash
hash(d, sd) == HashOf(as_storable_dict(d.tables), sd)

\* Database.backed_up_hash
backed_up_hash(b, sd) == hash_of_storable(json_load(b.content), sd)

SameHash(h, backed) == [err |-> h.err, val |-> h.val = backed]

\* Database.backup_is_same
backup_is_same(d, b, sd) == SameHash(hash(d, sd), backed_up_hash(b, sd))

\* the rest of backup_is_newer with the comparison of the modification
\* times reversed
newer_unless_same_reversed(same, d, b) ==
    IF same.err # "" THEN same
    ELSE IF same.val THEN [err |-> "", val |-> FALSE]
    ELSE [err |-> "", val |-> b.mtime < d.mtime]

\* the rest of backup_is_newer with a comparison that is not strict
newer_unless_same_not_strict(same, d, b) ==
    IF same.err # "" THEN same
    ELSE IF same.val THEN [err |-> "", val |-> FALSE]
    ELSE [err |-> "", val |-> b.mtime >= d.mtime]

\* the rest of backup_is_newer, same being the result of backup_is_same
newer_unless_same(same, d, b) ==
    IF same.err # "" THEN same
    ELSE IF same.val THEN [err |-> "", val |-> FALSE]
    ELSE [err |-> "", val |-> b.mtime > d.mtime]

\* Database.backup_is_newer
backup_is_newer(d, b, sd) == newer_unless_same(backup_is_same(d, b, sd), d, b)

\* the rest of backup_is_older with a comparison that is not strict
older_unless_newer_not_strict(newer, d, b) ==
    IF newer.err # "" THEN newer
    ELSE IF newer.val THEN [err |-> "", val |-> FALSE]
    ELSE [err |-> "", val |-> b.mtime <= d.mtime]

\* the rest of backup_is_older, newer being the result of backup_is_newer
older_unless_newer(newer, d, b) ==
    IF newer.err # "" THEN newer
    ELSE IF newer.val THEN [err |-> "", val |-> FALSE]
    ELSE [err |-> "", val |-> b.mtime < d.mtime]

\* Database.backup_is_older
backup_is_older(d, b, sd) == older_unless_newer(backup_is_newer(d, b, sd), d, b)

\* Database.maybe_load_backup: whether load_backup is called
maybe_load_backup(d, b, sd) ==
    IF ~b.exists THEN [err |-> "", val |-> FALSE]
    ELSE IF ~d.exists THEN [err |-> "", val |-> TRUE]
    ELSE backup_is_newer(d, b, sd)

\* maybe_save_backup without the test of self.recovered
maybe_save_backup_always(rec, d, b, sd) ==
    IF ~b.exists THEN [err |-> "", val |-> TRUE]
    ELSE backup_is_older(d, b, sd)

\* Database.maybe_save_backup: whether save_backup is called
maybe_save_backup(rec, d, b, sd) ==
    IF rec THEN [err |-> "", val |-> FALSE]
    ELSE IF ~b.exists THEN [err |-> "", val |-> TRUE]
    ELSE backup_is_older(d, b, sd)

\* sqlite3.connect(self.path) creates the file when it does not exist
Connect(d, now) == IF d.exists THEN d ELSE [exists |-> TRUE, tables |-> <<>>, mtime |-> now]

\* the store file after the transaction whose result is r: committed, or
\* rolled back when a statement failed
EndTransaction(d, r, now) ==
    IF r.ok /\ r.tables # d.tables
    THEN [db |-> [exists |-> TRUE, tables |-> r.tables, mtime |-> now],
          err |-> "", printed |-> <<>>]
    ELSE [db |-> Connect(d, now), err |-> r.err, printed |-> <<>>]

\* Database.execute_sql(command) for a list of statements: one transaction,
\* rolled back when a statement fails
execute_sql(d, command, dry, now) ==
    IF dry THEN [db |-> d, err |-> "", printed |-> <<command>>]
    ELSE EndTransaction(d, SqliteBatch(d.tables, command), now)

(***************************************************************************)
(* One pass: with Database(path) as db: pass                               *)
(***************************************************************************)
\* Database.__enter__: maybe_load_backup up to the call of load_backup
Enter ==
    /\ pc = "enter"
    /\ pre' = [db |-> db, backup |-> backup]
    /\ \E load \in {maybe_load_backup(db, backup, seed)} :
           /\ calls' = [calls EXCEPT !.consulted = backup.exists /\ db.exists,
                                     !.load = IF load.err = "" /\ load.val THEN @ + 1 ELSE @]
           /\ pc' = IF load.err # "" THEN "failed"
                    ELSE IF load.val THEN "load_backup" ELSE "body"
           /\ err' = load.err
    /\ UNCHANGED <<db, backup, bak, clock, dummy, recovered, seed, local, printed, pass, past>>

\* load_backup without the copy to the .bak file
LoadCopy_skipped ==
    /\ pc = "load_backup"
    /\ pc' = IF db.exists THEN "load_remove" ELSE "load_read"
    /\ UNCHANGED <<db, backup, bak, clock, dummy, recovered, seed, local, err, printed, pass, pre, calls, past>>

\* load_backup: copyfile(self.path, bkp_db) when the store exists
LoadCopy ==
    /\ pc = "load_backup"
    /\ IF db.exists
       THEN bak' = [exists |-> TRUE, tables |-> db.tables] /\ pc' = "load_remove"
       ELSE bak' = bak /\ pc' = "load_read"
    /\ UNCHANGED <<db, backup, clock, dummy, recovered, seed, local, err, printed, pass, pre, calls, past>>

\* load_backup: os.remove(self.path)
LoadRemove ==
    /\ pc = "load_remove"
    /\ db' = Absent
    /\ pc' = "load_read"
    /\ UNCHANGED <<backup, bak, clock, dummy, recovered, seed, local, err, printed, pass, pre, calls, past>>

\* load_backup: json.load and the list of CREATE statements
LoadRead ==
    /\ pc = "load_read"
    /\ \E backup_data \in {json_load(backup.content)} :
       \E create_statements \in
              {[i \in 1..Len(backup_data) |-> create_statement_from_data(backup_data[i])]} :
           IF AnyRaise(create_statements)
           THEN /\ pc' = "failed"
                /\ err' = FirstRaise(create_statements)[2]
                /\ local' = local
           ELSE /\ pc' = "load_create"
                /\ err' = err
                /\ local' = [local EXCEPT !.backup_data = backup_data,
                                          !.create_statements = create_statements]
    /\ UNCHANGED <<db, backup, bak, clock, dummy, recovered, seed, printed, pass, pre, calls, past>>

\* load_backup: self.execute_sql(create_statements)
LoadCreate ==
    /\ pc = "load_create"
    /\ \E r \in {execute_sql(db, local.create_statements, dummy, clock + 1)} :
           /\ db' = r.db
           /\ printed' = printed \o r.printed
           /\ err' = r.err
           /\ pc' = IF r.err # "" THEN "failed" ELSE "load_build"
    /\ clock' = clock + 1
    /\ UNCHANGED <<backup, bak, dummy, recovered, seed, local, pass, pre, calls, past>>

\* load_backup taking the tables last to first when it populates them
LoadBuild_last_first ==
    /\ pc = "load_build"
    /\ \E populate_statements \in
              {[i \in 1..Len(local.backup_data) |->
                   populate_from_data(local.backup_data[Len(local.backup_data) + 1 - i])]} :
           IF \E i \in 1..Len(populate_statements) : AnyRaise(populate_statements[i])
           THEN /\ pc' = "failed"
                /\ err' = "ValueError"
                /\ local' = local
           ELSE /\ pc' = "load_populate"
                /\ err' = err
                /\ local' = [local EXCEPT !.populate_statements = populate_statements, !.i = 1]
    /\ UNCHANGED <<db, backup, bak, clock, dummy, recovered, seed, printed, pass, pre, calls, past>>

\* load_backup: the list of the INSERT statements of every table
LoadBuild ==
    /\ pc = "load_build"
    /\ \E populate_statements \in
              {[i \in 1..Len(local.backup_data) |-> populate_from_data(local.backup_data[i])]} :
           IF \E i \in 1..Len(populate_statements) : AnyRaise(populate_statements[i])
           THEN /\ pc' = "failed"
                /\ err' = "ValueError"
                /\ local' = local
           ELSE /\ pc' = "load_populate"
                /\ err' = err
                /\ local' = [local EXCEPT !.populate_statements = populate_statements, !.i = 1]
    /\ UNCHANGED <<db, backup, bak, clock, dummy, recovered, seed, printed, pass, pre, calls, past>>

\* load_backup: self.execute_sql(statements) for the next table
LoadPopulate ==
    /\ pc = "load_populate"
    /\ local.i <= Len(local.populate_statements)
    /\ \E r \in {execute_sql(db, local.populate_statements[local.i], dummy, clock + 1)} :
           /\ db' = r.db
           /\ printed' = printed \o r.printed
           /\ err' = r.err
           /\ pc' = IF r.err # "" THEN "failed" ELSE "load_populate"
    /\ local' = [local EXCEPT !.i = @ + 1]
    /\ clock' = clock + 1
    /\ UNCHANGED <<backup, bak, dummy, recovered, seed, pass, pre, calls, past>>

\* load_backup returning without setting self.recovered
LoadDone_unmarked ==
    /\ pc = "load_populate"
    /\ local.i > Len(local.populate_statements)
    /\ pc' = "body"
    /\ UNCHANGED <<db, backup, bak, clock, dummy, recovered, seed, local, err, printed, pass, pre, calls, past>>

\* load_backup: self.recovered = True, and __enter__ returns
LoadDone ==
    /\ pc = "load_populate"
    /\ local.i > Len(local.populate_statements)
    /\ recovered' = TRUE
    /\ pc' = "body"
    /\ UNCHANGED <<db, backup, bak, clock, dummy, seed, local, err, printed, pass, pre, calls, past>>

\* Database.__exit__: maybe_save_backup up to the call of save_backup.  The
\* query behind the fingerprint creates the store file when it is missing.
Exit ==
    /\ pc = "body"
    /\ \E save \in {maybe_save_backup(recovered, db, backup, seed)} :
           /\ calls' = [calls EXCEPT !.save = IF save.err = "" /\ save.val THEN @ + 1 ELSE @]
           /\ pc' = IF save.err # "" THEN "failed"
                    ELSE IF save.val THEN "save_backup" ELSE "done"
           /\ err' = save.err
    /\ IF ~recovered /\ backup.exists
       THEN db' = Connect(db, clock + 1) /\ clock' = clock + 1
       ELSE UNCHANGED <<db, clock>>
    /\ UNCHANGED <<backup, bak, dummy, recovered, seed, local, printed, pass, pre, past>>

\* save_backup opening the backup file for writing before it builds the
\* document
SaveBackup_opens_first ==
    /\ pc = "save_backup"
    /\ \E data \in {as_storable_dict(db.tables)} :
           /\ db' = Connect(db, clock + 1)
           /\ err' = data.err
           /\ IF data.err # ""
              THEN /\ pc' = "failed"
                   /\ backup' = [exists |-> TRUE, content |-> <<>>, mtime |-> clock + 1]
              ELSE /\ pc' = "done"
                   /\ backup' = [exists |-> TRUE, content |-> json_dump(data.doc),
                                 mtime |-> clock + 1]
    /\ clock' = clock + 1
    /\ UNCHANGED <<bak, dummy, recovered, seed, local, printed, pass, pre, calls, past>>

\* Database.save_backup
SaveBackup ==
    /\ pc = "save_backup"
    /\ \E data \in {as_storable_dict(db.tables)} :
           /\ db' = Connect(db, clock + 1)
           /\ err' = data.err
           /\ IF data.err # ""
              THEN pc' = "failed" /\ backup' = backup
              ELSE /\ pc' = "done"
                   /\ backup' = [exists |-> TRUE, content |-> json_dump(data.doc),
                                 mtime |-> clock + 1]
    /\ clock' = clock + 1
    /\ UNCHANGED <<bak, dummy, recovered, seed, local, printed, pass, pre, calls, past>>

\* the next run of the program on the same path: a new Database object
NewPass ==
    /\ pc \in {"done", "failed"}
    /\ pass < MaxPasses
    /\ pass' = pass + 1
    /\ pc' = "enter"
    /\ dummy' \in BOOLEAN
    /\ seed' \in 1..NSeeds
    /\ recovered' = FALSE
    /\ local' = NoLocal
    /\ err' = ""
    /\ printed' = <<>>
    /\ calls' = NoCalls
    /\ pre' = [db |-> db, backup |-> backup]
    /\ past' = [past EXCEPT !.passes = Append(@, [load |-> calls.load, save |-> calls.save])]
    /\ UNCHANGED <<db, backup, bak, clock>>

Next ==
    \/ Enter
    \/ LoadCopy
    \/ LoadRemove
    \/ LoadRead
    \/ LoadCreate
    \/ LoadBuild
    \/ LoadPopulate
    \/ LoadDone
    \/ Exit
    \/ SaveBackup
    \/ NewPass

Spec == Init /\ [][Next]_vars

(***************************************************************************)
(* save_backup called directly, several times in a row, by one process:    *)
(* db.save_backup(); db.save_backup().  pass counts the calls, pre holds   *)
(* the two files as they were before the call.                             *)
(***************************************************************************)
InitRefresh ==
    /\ db \in Stores
    /\ backup \in Backups
    /\ bak = [exists |-> FALSE, tables |-> <<>>]
    /\ clock = MaxTime0
    /\ dummy \in BOOLEAN
    /\ recovered = FALSE
    /\ seed \in 1..NSeeds
    /\ pc = "save_backup"
    /\ local = NoLocal
    /\ err = ""
    /\ printed = <<>>
    /\ pass = 1
    /\ pre = [db |-> db, backup |-> backup]
    /\ calls = NoCalls
    /\ past = [start |-> [db |-> db, backup |-> backup], passes |-> <<>>]

\* the next call of save_backup on the same object
SaveAgain ==
    /\ pc = "done"
    /\ pass < MaxPasses
    /\ pass' = pass + 1
    /\ pc' = "save_backup"
    /\ pre' = [db |-> db, backup |-> backup]
    /\ UNCHANGED <<db, backup, bak, clock, dummy, recovered, seed, local, err, printed, calls, past>>

NextRefresh ==
    \/ SaveBackup
    \/ SaveAgain

SpecRefresh == InitRefresh /\ [][NextRefresh]_vars

(***************************************************************************)
(* Properties of a pass.  pre holds the two files as __enter__ found them. *)
(***************************************************************************)
PreBoth == pre.db.exists /\ pre.backup.exists
\* both sides can be fingerprinted
PreReadable == PreBoth /\ hash(pre.db, seed).err = ""
PreSame == PreReadable /\ hash(pre.db, seed).val = backed_up_hash(pre.backup, seed)
PreDiffer == PreReadable /\ hash(pre.db, seed).val # backed_up_hash(pre.backup, seed)
Entered == pc # "enter"
Finished == pc \in {"done", "failed"}

\* C1: in a pass where the live store and the backup both exist and their
\* fingerprints are equal, neither load_backup nor save_backup runs,
\* whatever the order of the two modification times.
C1_ContentWinsOverTime ==
    (Entered /\ PreSame) => (calls.load = 0 /\ calls.save = 0)

\* C2: both files exist, the fingerprints differ and the backup is strictly
\* newer: the enter step runs load_backup (once), a completed enter step has
\* marked the session recovered, and save_backup never runs in the pass.
C2_RestoreWhenBackupNewer ==
    (Entered /\ PreDiffer /\ pre.backup.mtime > pre.db.mtime)
        => /\ calls.load = 1
           /\ calls.save = 0
           /\ (pc \in {"body", "done"} => recovered)

C2_Witness ==
    /\ pc = "done" /\ PreDiffer /\ pre.backup.mtime > pre.db.mtime
    /\ ~dummy /\ recovered /\ calls.load = 1
    /\ db.exists /\ db.tables # pre.db.tables /\ backup = pre.backup

\* C3 as stated: both files exist, the fingerprints differ and the live
\* store is not older than the backup (mtime greater or equal): the exit
\* step refreshes the backup and no restore occurs.
C3_RefreshWhenStoreNotOlder ==
    (pc = "done" /\ PreDiffer /\ pre.db.mtime >= pre.backup.mtime)
        => (calls.save = 1 /\ calls.load = 0)

\* C3 amended: with differing fingerprints, no restore occurs when the live
\* store is not older than the backup; the exit step refreshes the backup
\* from the live store when the store is strictly newer, and leaves it alone
\* when the two modification times are equal.
C3_RefreshWhenStoreNewer ==
    (Entered /\ PreDiffer /\ pre.db.mtime >= pre.backup.mtime)
        => /\ calls.load = 0
           /\ db.tables = pre.db.tables
           /\ pc # "failed"
           /\ pc = "done" =>
                 IF pre.db.mtime > pre.backup.mtime
                 THEN /\ calls.save = 1
                      /\ backup.content = json_dump(as_storable_dict(pre.db.tables).doc)
                      /\ backup.mtime > pre.db.mtime
                 ELSE calls.save = 0 /\ backup = pre.backup

C3_Witness ==
    /\ pc = "done" /\ PreDiffer /\ pre.db.mtime > pre.backup.mtime
    /\ calls.save = 1 /\ backup # pre.backup

\* C4: live store absent and backup present at the enter step: load_backup
\* runs without fingerprint or modification time being consulted, a completed
\* restore has marked the session recovered, and the exit step of the session
\* does not write the backup.
C4_RestoreWhenStoreAbsent ==
    (Entered /\ ~pre.db.exists /\ pre.backup.exists)
        => /\ calls.load = 1
           /\ ~calls.consulted
           /\ calls.save = 0
           /\ backup = pre.backup
           /\ (pc \in {"body", "done"} => recovered)

C4_Witness ==
    /\ pc = "done" /\ ~pre.db.exists /\ pre.backup.exists
    /\ ~dummy /\ recovered /\ db.exists /\ db.tables # <<>>

\* C5: backup absent at the enter step: the enter step does nothing to the
\* live store, and after the exit step the backup exists, whatever the state
\* of the live store (absent, without tables, with tables).
C5_FirstTimeSave ==
    (Entered /\ ~pre.backup.exists)
        => /\ calls.load = 0
           /\ (pc = "body" => db = pre.db)
           /\ (Finished => backup.exists)

\* C6: when a statement of a restore fails, the live store holds none of
\* the restore's tables or rows.
C6_RestoreAtomic ==
    (pc = "failed" /\ calls.load = 1) => db.tables = <<>>

\* C7: in one pass at most one of load_backup and save_backup runs, and
\* neither runs twice.
C7_NeverBoth ==
    /\ ~(calls.load > 0 /\ calls.save > 0)
    /\ calls.load <= 1
    /\ calls.save <= 1

C7_Witness ==
    /\ pc = "done" /\ calls.load = 1 /\ calls.save = 0
    /\ ~dummy /\ pre.db.exists /\ pre.backup.exists /\ db.tables # pre.db.tables

\* C8: when load_backup runs while a live store exists, at every step of
\* the restore the pre-restore contents are in the live store or in the
\* snapshot <store-path>.<timestamp>.bak.
C8_SafetyNet ==
    (calls.load = 1 /\ pre.db.exists)
        => \/ db.exists /\ db.tables = pre.db.tables
           \/ bak.exists /\ bak.tables = pre.db.tables

C8_Witness ==
    /\ pc = "failed" /\ calls.load = 1 /\ pre.db.exists /\ pre.db.tables # <<>>
    /\ db.tables # pre.db.tables
    /\ bak.exists /\ bak.tables = pre.db.tables

\* C9: with dummy set, a restore leaves the existence and the contents of
\* the live store as they were.
C9_DryRunLeavesStore ==
    (dummy /\ calls.load = 1) => (db.exists = pre.db.exists /\ db.tables = pre.db.tables)

\* dict equality of two ordered mappings: same keys, same values
SameDict(a, b) == {a[i] : i \in 1..Len(a)} = {b[i] : i \in 1..Len(b)}
\* the attributes of a column that are set
SetAttrs(spec) ==
    {spec[i] : i \in {j \in 1..Len(spec) :
                         spec[j].key \in {"datatype", "default"} \/ Truthy(spec[j].val)}}
\* same tables in the same order, same columns in the same order with the
\* same attributes, same rows in the same order
StructurallyEqual(a, b) ==
    /\ Len(a) = Len(b)
    /\ \A i \in 1..Len(a) :
          /\ i <= Len(b)
          /\ a[i].name = b[i].name
          /\ Len(a[i].columns) = Len(b[i].columns)
          /\ \A c \in 1..Len(a[i].columns) :
                /\ c <= Len(b[i].columns)
                /\ a[i].columns[c].n = b[i].columns[c].n
                /\ SetAttrs(a[i].columns[c].spec) = SetAttrs(b[i].columns[c].spec)
          /\ Len(a[i].rows) = Len(b[i].rows)
          /\ \A r \in 1..Len(a[i].rows) :
                r <= Len(b[i].rows) /\ SameDict(a[i].rows[r], b[i].rows[r])

\* C10: the statements built from a document, applied to a fresh store and
\* introspected, give back a structurally equal document (stated for the
\* stores as_storable_dict returns a document for).
C10_StatementRoundTrip ==
    (pc = "body" /\ recovered /\ ~dummy /\ ~pre.db.exists
                /\ as_storable_dict(db.tables).err = "")
        => StructurallyEqual(as_storable_dict(db.tables).doc, local.backup_data)

\* C11: after every refresh the backup's fingerprint equals the live
\* store's (backup_is_same is true), and a refresh that follows another one
\* with the store unchanged leaves a backup with the fingerprint of the one
\* before.
C11_RefreshIdempotent ==
    (pc = "done")
        => /\ backup_is_same(db, backup, seed) = [err |-> "", val |-> TRUE]
           /\ (pass >= 2 /\ db.tables = pre.db.tables)
                 => backed_up_hash(backup, seed) = backed_up_hash(pre.backup, seed)

C11_Witness ==
    /\ pc = "done" /\ pass = 2 /\ db.tables = pre.db.tables /\ Len(db.tables) = 2
    /\ backup.mtime > pre.backup.mtime
    /\ backed_up_hash(backup, seed) = backed_up_hash(pre.backup, seed)

\* C12: the fingerprint of a backup document is the same value in every run
\* of the program: the run that follows another one on the same path obtains
\* for the unchanged backup the fingerprint the run before obtained.
C12_FingerprintStable ==
    [][(pass' = pass + 1 /\ backup.exists /\ backup' = backup)
          => backed_up_hash(backup', seed') = backed_up_hash(backup, seed)]_vars

\* the column list of a CREATE TABLE text has a parenthesis inside
Nested(sql) == \E i \in 8..(Len(sql) - 1) : sql[i] = LP
\* the errors of as_storable_dict that come from the schema text
ParseErrors == {"Exception", "ValueError"}

\* C13: when the schema text of a table of the live store has parentheses
\* nested inside its column list, introspection of the store fails with a
\* parse error (the fragment is not accepted as a column).  Stated for the
\* enter steps that fingerprint the store.
C13_NestedRejected ==
    (Entered /\ calls.consulted
             /\ \E i \in 1..Len(pre.db.tables) : Nested(pre.db.tables[i].sql))
        => as_storable_dict(pre.db.tables).err \in ParseErrors

\* the entries of a row whose value is not null, in the row's order
NonNull(row) == SelectSeq(row, LAMBDA e : e.val # VNull)
\* what the store reads in the statement stmt built for the row: the name
\* of the table, the columns of NonNull(row) in that order, and one value
\* for each, the row's own value when it is a number or a text
ListsExactly(ins, name, nn) ==
    /\ ins.ok
    /\ ins.name = name
    /\ ins.cols = [h \in 1..Len(nn) |-> nn[h].key]
    /\ Len(ins.vals) = Len(nn)
    /\ \A h \in 1..Len(nn) :
          nn[h].val.k \in {"int", "float", "text"} => ins.vals[h] = nn[h].val

\* C14: every insert statement a restore builds lists exactly the columns
\* of its row whose value is not null, in the row's order, with one value
\* per listed column; a column whose value is null is in neither list; the
\* rows read from the backup are left as they were read.
C14_Omission ==
    (local.populate_statements # <<>>)
        => /\ local.backup_data = json_load(backup.content)
           /\ \A i \in 1..Len(local.backup_data) :
                 /\ Len(local.populate_statements[i]) = Len(local.backup_data[i].rows)
                 /\ \A r \in 1..Len(local.backup_data[i].rows) :
                       ListsExactly(SqliteInsert(local.populate_statements[i][r]),
                                    local.backup_data[i].name,
                                    NonNull(local.backup_data[i].rows[r]))

\* statements built for a row with a null value and for a row that leaves
\* a column out
C14_Witness ==
    /\ pc = "load_populate" /\ local.i = 1
    /\ \E r \in 1..Len(local.backup_data[1].rows) :
          /\ \E h \in 1..Len(local.backup_data[1].rows[r]) :
                local.backup_data[1].rows[r][h].val = VNull
          /\ Len(NonNull(local.backup_data[1].rows[r])) = 2
          /\ SqliteInsert(local.populate_statements[1][r]).cols = << <<"id">>, <<"name">> >>

\* the names of the tables of a store, of a document
StoreNames(tables) == [j \in 1..Len(tables) |-> tables[j].name]
DocNames(data) == [j \in 1..Len(data) |-> data[j].name]
\* the tables of the backup before the n-th hold all their rows, the
\* others none
PopulatedBefore(tables, data, n) ==
    \A j \in 1..Len(tables) :
        j <= Len(data)
        /\ Len(tables[j].rows) = IF j < n THEN Len(data[j].rows) ELSE 0

\* C15: during a restore every CREATE TABLE statement of the backup is
\* executed before the first INSERT statement of any table, and the tables
\* are created and populated in the order of the backup: before the CREATE
\* batch the store holds nothing; after it the store holds all the tables
\* of the backup in the backup's order, and when the statements of the
\* i-th table are next, exactly the tables before it hold rows.  In dummy
\* mode the batches are printed in that order.
C15_RestoreOrdering ==
    (calls.load = 1)
        => /\ (pc \in {"load_read", "load_create"}) => (db.tables = <<>> /\ printed = <<>>)
           /\ (pc \in {"load_build", "load_populate", "body", "done"} /\ ~dummy)
                 => /\ StoreNames(db.tables) = DocNames(local.backup_data)
                    /\ PopulatedBefore(db.tables, local.backup_data,
                                       IF pc = "load_build" THEN 1
                                       ELSE IF pc = "load_populate" THEN local.i
                                       ELSE Len(local.backup_data) + 1)
           /\ (pc = "failed" /\ ~dummy /\ local.i >= 1)
                 => /\ StoreNames(db.tables) = DocNames(local.backup_data)
                    /\ PopulatedBefore(db.tables, local.backup_data, local.i - 1)
           /\ (pc \in {"load_populate", "body", "done"} /\ dummy)
                 => printed = <<local.create_statements>>
                              \o SubSeq(local.populate_statements, 1,
                                        IF pc = "load_populate" THEN local.i - 1
                                        ELSE Len(local.populate_statements))

\* the first table of a backup of two tables holds its rows, the second
\* one exists and is still empty
C15_Witness ==
    /\ pc = "load_populate" /\ calls.load = 1 /\ ~dummy /\ local.i = 2
    /\ Len(db.tables) = 2 /\ Len(local.backup_data) = 2
    /\ Len(db.tables[1].rows) = 2 /\ db.tables[2].rows = <<>>
    /\ Len(local.backup_data[2].rows) = 1

\* a user table of the store has no rows
SomeEmpty(user) == \E i \in 1..Len(user) : user[i].rows = <<>>
\* the schema text of every user table is one as_storable_dict can read
AllParse(user) == \A i \in 1..Len(user) : ParseSource(user[i].sql).err = ""
\* the pass ended with the NoResults error
FailedNoResults == pc = "failed" /\ err = "NoResults"

\* C16 as stated: introspection fails with NoResults whenever the store has
\* no user tables or some user table has zero rows; so does the enter step
\* that fingerprints such a store and the pass that has to refresh from it.
C16_EmptyConflation ==
    /\ (UserTables(db.tables) = <<>> \/ SomeEmpty(UserTables(db.tables)))
          => as_storable_dict(db.tables).err = "NoResults"
    /\ (Entered /\ PreBoth
                /\ (UserTables(pre.db.tables) = <<>> \/ SomeEmpty(UserTables(pre.db.tables))))
          => FailedNoResults

\* C16 amended: introspection fails with NoResults whenever the store has
\* no user tables, or the schema text of every user table parses and some
\* user table has zero rows (a schema text that does not parse fails first,
\* with its own error).  For such a store the enter step that needs the
\* fingerprint fails with NoResults and does nothing, and the pass that
\* finds no backup fails with NoResults in save_backup and writes none.
C16_EmptyConflationParsed ==
    /\ (UserTables(db.tables) = <<>>
            \/ (AllParse(UserTables(db.tables)) /\ SomeEmpty(UserTables(db.tables))))
          => as_storable_dict(db.tables).err = "NoResults"
    /\ (UserTables(pre.db.tables) = <<>>
            \/ (AllParse(UserTables(pre.db.tables)) /\ SomeEmpty(UserTables(pre.db.tables))))
          => /\ (Entered /\ PreBoth)
                   => (FailedNoResults /\ calls.load = 0 /\ calls.save = 0
                                       /\ db = pre.db /\ backup = pre.backup)
             /\ (Finished /\ ~pre.backup.exists)
                   => (FailedNoResults /\ calls.save = 1 /\ ~backup.exists)

\* the enter step failed on a store whose only table has no rows
C16_Witness ==
    /\ FailedNoResults /\ PreBoth /\ calls.consulted
    /\ Len(pre.db.tables) = 1 /\ pre.db.tables[1].rows = <<>>
    /\ AllParse(UserTables(pre.db.tables))

\* C17: building the insert statements fails whenever a non-null value of a
\* row is neither integer, float nor text: when a restore has built its
\* statements, every value of every row of the backup is of one of these
\* kinds or null.
C17_ValueKinds ==
    (local.populate_statements # <<>>)
        => \A i \in 1..Len(local.backup_data) :
              \A r \in 1..Len(local.backup_data[i].rows) :
                 \A h \in 1..Len(local.backup_data[i].rows[r]) :
                    local.backup_data[i].rows[r][h].val.k \in {"null", "int", "float", "text"}

\* C18: load_backup replaces an existing live store only when the
\* fingerprints differ and the backup's modification time is strictly
\* greater than the store's; in a pass where the store exists and is not
\* older than the backup, or has the backup's content, the enter step
\* leaves the store as it was.
C18_RestoreOnlyWhenNewer ==
    /\ (pre.db.exists /\ calls.load = 1)
          => (PreDiffer /\ pre.backup.mtime > pre.db.mtime)
    /\ (Entered /\ PreBoth /\ (pre.db.mtime >= pre.backup.mtime \/ PreSame))
          => (calls.load = 0 /\ db = pre.db)

\* differing content, equal modification times: the enter step is over and
\* the store is as it was
C18_Witness ==
    /\ pc = "body" /\ PreDiffer /\ pre.db.mtime = pre.backup.mtime
    /\ calls.load = 0 /\ db = pre.db /\ db.tables # <<>>

\* C19: when the introspection of the live store fails during save_backup
\* (NoResults, or a schema text that cannot be read), the backup file is as
\* it was before the call: not created, not truncated, not modified.
C19_FailedRefreshKeepsBackup ==
    (pc = "failed")
        => /\ err \in {"NoResults"} \cup ParseErrors
           /\ as_storable_dict(db.tables).err = err
           /\ backup = pre.backup

\* save_backup failed on a store with a table without rows while a backup
\* with content existed
C19_Witness ==
    /\ pc = "failed" /\ err = "NoResults" /\ db.tables # <<>>
    /\ pre.backup.exists /\ pre.backup.content # <<>> /\ backup = pre.backup

\* the first pass found the live store and the backup, the store could be
\* introspected and the backup is one whose statements can be built and
\* executed on a fresh store
StartReadable ==
    /\ past.start.db.exists
    /\ past.start.backup.exists
    /\ as_storable_dict(past.start.db.tables).err = ""
    /\ SqliteBatch(<<>>, ScriptOf(json_load(past.start.backup.content))).ok

\* C20: starting with a live store and a backup that both exist and can be
\* introspected, consecutive passes call load_backup or save_backup in the
\* first two passes at most, and load_backup is never called in a pass
\* after one that called save_backup.
C20_Quiescence ==
    StartReadable
        => /\ (pass >= 3) => (calls.load = 0 /\ calls.save = 0)
           /\ (calls.load > 0) => \A k \in 1..Len(past.passes) : past.passes[k].save = 0

====
